---- MODULE Spec2Model ----
(***************************************************************************)
(* Batch harness of the poster package around the libpostal engine:        *)
(* poster_internal::{isna, parse_single, address_normalise, parse_addr,    *)
(* get_elements, set_elements} (src/src/postal.cpp) and the exported       *)
(* normalise_addr / parse_addr (src/unnamed/part_000).                     *)
(*                                                                         *)
(* A string is a sequence of characters.  NA_STRING is a value that is no  *)
(* string over Char.  The engine (expand_address, parse_address) is an     *)
(* oracle: each call returns any response from a bounded set.              *)
(***************************************************************************)
EXTENDS Integers, Sequences, FiniteSets, TLC

\* ---------------------------------------------------------------- bounds
MaxLen == 2
MaxComponents == 2
MaxExpansions == 2

\* ------------------------------------------------------ program constants
\* (i % 10000) == 0 guards Rcpp::checkUserInterrupt()
CheckEvery == 10000
\* CharacterVector output(10, NA_STRING)
NumFields == 10

\* ------------------------------------------------------------ value sets
NA_STRING == <<"NA_STRING">>
\* std::string::npos, the "not found" result of std::string::find
npos == -1

FieldNames ==
  << "house", "house_number", "road", "suburb", "city_district",
     "city", "state_district", "state", "postal_code", "country" >>

SeqsUpTo(S, n) == UNION { [1..k -> S] : k \in 0..n }

AddrVals == { NA_STRING, <<"a", "b", "a">> }
Batches == SeqsUpTo(AddrVals, MaxLen)
NewVals == { NA_STRING, <<"c">> }
NewValues == SeqsUpTo(NewVals, MaxLen + 1)
Elements == { 0, 2 }
\* what parse_address may put in one (label, component) pair
EnginePairs ==
  { << "house", <<"a">> >>, << "house", <<"b", "b">> >>,
    << "road", <<"b">> >>, << "road", <<>> >>, << "island", <<"a">> >> }
ParseResponses == SeqsUpTo(EnginePairs, MaxComponents)
ExpandResponses == SeqsUpTo({ <<"a">>, <<"c">> }, MaxExpansions)

\* ------------------------------------------------------- pure functions

\* String poster_internal::isna(std::string x)
isna(x) == IF x = <<>> THEN NA_STRING ELSE x

\* a vector allocated one element too long
CharacterVector_plus_one(size, fill) == [k \in 1..(size + 1) |-> fill]

\* CharacterVector v(size): a STRSXP of `size` blank strings
\* CharacterVector v(size, NA_STRING): `size` copies of NA_STRING
CharacterVector(size, fill) == [k \in 1..size |-> fill]

\* One pass of the body of the component loop: the ten independent `if`s,
\* each overwriting its own slot when the label matches exactly.
parse_component(output, label, component) ==
  [k \in 1..NumFields |->
     IF label = FieldNames[k] THEN isna(component) ELSE output[k]]

RECURSIVE parse_components(_, _, _)
parse_components(output, parsed, n) ==
  IF n > Len(parsed) THEN output
  ELSE parse_components(
         parse_component(output, parsed[n][1], parsed[n][2]), parsed, n + 1)

\* CharacterVector poster_internal::parse_single(String x, opts), given the
\* engine's response for x
parse_single(parsed) ==
  parse_components(CharacterVector(NumFields, NA_STRING), parsed, 1)

\* the last candidate taken instead of the first
normalise_one_last(address, expansions) ==
  IF Len(expansions) = 0 THEN address ELSE expansions[Len(expansions)]

\* the choice made from the expansion list in address_normalise
normalise_one(address, expansions) ==
  IF Len(expansions) = 0 THEN address ELSE expansions[1]

\* std::string::find(t): 0-based position of the first occurrence, or npos
find(s, t) ==
  LET hits == { p \in 0..(Len(s) - Len(t)) :
                  SubSeq(s, p + 1, p + Len(t)) = t }
  IN IF hits = {} THEN npos
     ELSE CHOOSE p \in hits : \A q \in hits : p <= q

\* std::string::replace(pos, len, r) throws std::out_of_range when
\* pos > size(); pos is a size_t, so npos is larger than every size
replace_throws(s, pos) == pos = npos \/ pos > Len(s)

replace(s, pos, len, r) ==
  LET cut == IF len < Len(s) - pos THEN len ELSE Len(s) - pos
  IN SubSeq(s, 1, pos) \o r \o SubSeq(s, pos + cut + 1, Len(s))

\* `unsigned int i;` read without initialisation: any value.  Every value
\* >= input_size skips the loop alike, so input_size stands for them all.
Indeterminate(input_size) == 0..input_size

\* ---------------------------------------------------------------- state
VARIABLES
  pc,          \* "idle", "loop", "loop2", "components", "done"
  op,          \* the operation in progress
  addresses,   \* the input batch
  new_value,   \* set_elements: the replacement values
  element,     \* get_elements / set_elements: the field index (0-based)
  i,           \* the loop index
  n,           \* exported parse_addr: the component index
  output,      \* the vector `return` hands back when result = "returned":
               \* the local `output`, or `addresses` on set_elements' early return
  cols,        \* parse: the ten columns
  expansions,  \* the last response of expand_address
  parsed,      \* the last response of parse_address
  outstanding, \* engine-allocated buffers not yet destroyed
  calls,       \* element indices the engine was called for, in order
  checks,      \* element indices at which checkUserInterrupt() ran
  visited,     \* element indices whose loop body ran, in order
  result       \* "none", "returned", "interrupted", "stop", "out_of_range"

vars == << pc, op, addresses, new_value, element, i, n, output, cols,
           expansions, parsed, outstanding, calls, checks, visited, result >>

Init ==
  /\ pc = "idle"
  /\ op = "none"
  /\ addresses = <<>>
  /\ new_value = <<>>
  /\ element = 0
  /\ i = 0
  /\ n = 0
  /\ output = <<>>
  /\ cols = <<>>
  /\ expansions = <<>>
  /\ parsed = <<>>
  /\ outstanding = 0
  /\ calls = <<>>
  /\ checks = <<>>
  /\ visited = <<>>
  /\ result = "none"

\* entry of an operation: the locals declared before the loop
Enter(name, addrs, nv, el, out, df, i0, next) ==
  /\ pc' = next
  /\ op' = name
  /\ addresses' = addrs
  /\ new_value' = nv
  /\ element' = el
  /\ i' = i0
  /\ output' = out
  /\ cols' = df
  /\ UNCHANGED << n, expansions, parsed, outstanding, calls, checks, visited >>

\* Rcpp::checkUserInterrupt() throws when the host has an interrupt pending
Interrupts(idx) == IF idx % CheckEvery = 0 THEN BOOLEAN ELSE { FALSE }
Checked(idx) == IF idx % CheckEvery = 0 THEN Append(checks, idx) ELSE checks

Abort(why) ==
  /\ pc' = "done"
  /\ result' = why

\* `return output;` after the loop
Return(name, loop) ==
  /\ pc = loop
  /\ op = name
  /\ i >= Len(addresses)
  /\ pc' = "done"
  /\ result' = "returned"
  /\ UNCHANGED << op, addresses, new_value, element, i, n, output, cols,
                  expansions, parsed, outstanding, calls, checks, visited >>

\* ------------------------------------------------------------ normalise
\* the loop body shared verbatim by poster_internal::address_normalise and
\* the exported normalise_addr
normalise_iteration(name) ==
  /\ pc = "loop"
  /\ op = name
  /\ i < Len(addresses)
  /\ checks' = Checked(i)
  /\ visited' = Append(visited, i)
  /\ \E interrupt \in Interrupts(i) :
       IF interrupt
       THEN /\ Abort("interrupted")
            /\ UNCHANGED << i, output, expansions, outstanding, calls >>
       ELSE /\ IF addresses[i + 1] = NA_STRING
               THEN /\ output' = [output EXCEPT ![i + 1] = NA_STRING]
                    /\ UNCHANGED << expansions, outstanding, calls >>
               ELSE \E exps \in ExpandResponses :
                      /\ expansions' = exps
                      /\ calls' = Append(calls, i)
                      /\ output' = [output EXCEPT
                                      ![i + 1] = normalise_one(addresses[i + 1], exps)]
                      \* expand_address allocates, expansion_array_destroy frees
                      /\ outstanding' = (outstanding + 1) - 1
            /\ i' = i + 1
            /\ UNCHANGED << pc, result >>
  /\ UNCHANGED << op, addresses, new_value, element, n, cols, parsed >>

call_address_normalise ==
  /\ pc = "idle"
  /\ \E addrs \in Batches :
         /\ Enter("address_normalise", addrs, <<>>, 0,
                  CharacterVector(Len(addrs), <<>>), <<>>, 0, "loop")
         /\ UNCHANGED result

address_normalise == normalise_iteration("address_normalise")

return_address_normalise == Return("address_normalise", "loop")

call_normalise_addr ==
  /\ pc = "idle"
  /\ \E addrs \in Batches :
         /\ Enter("normalise_addr", addrs, <<>>, 0,
                  CharacterVector(Len(addrs), <<>>), <<>>, 0, "loop")
         /\ UNCHANGED result

normalise_addr == normalise_iteration("normalise_addr")

return_normalise_addr == Return("normalise_addr", "loop")

\* ------------------------------------------- poster_internal::parse_addr
call_poster_internal_parse_addr ==
  /\ pc = "idle"
  /\ \E addrs \in Batches : \E i0 \in Indeterminate(Len(addrs)) :
         /\ Enter("poster_internal_parse_addr", addrs, <<>>, 0, <<>>,
                  CharacterVector(NumFields, CharacterVector(Len(addrs), NA_STRING)),
                  i0, "loop")
         /\ UNCHANGED result

\* holding = parse_single(...); house[i] = holding[0]; ... country[i] = holding[9]
scatter(df, idx, holding) ==
  [k \in 1..NumFields |-> [df[k] EXCEPT ![idx + 1] = holding[k]]]

poster_internal_parse_addr ==
  /\ pc = "loop"
  /\ op = "poster_internal_parse_addr"
  /\ i < Len(addresses)
  /\ checks' = Checked(i)
  /\ visited' = Append(visited, i)
  /\ \E interrupt \in Interrupts(i) :
       IF interrupt
       THEN /\ Abort("interrupted")
            /\ UNCHANGED << i, cols, parsed, outstanding, calls >>
       ELSE /\ IF addresses[i + 1] # NA_STRING
               THEN \E response \in ParseResponses :
                      /\ parsed' = response
                      /\ calls' = Append(calls, i)
                      /\ cols' = scatter(cols, i, parse_single(response))
                      \* parse_address allocates,
                      \* address_parser_response_destroy frees
                      /\ outstanding' = (outstanding + 1) - 1
               ELSE UNCHANGED << cols, parsed, outstanding, calls >>
            /\ i' = i + 1
            /\ UNCHANGED << pc, result >>
  /\ UNCHANGED << op, addresses, new_value, element, n, output, expansions >>

return_poster_internal_parse_addr == Return("poster_internal_parse_addr", "loop")

\* --------------------------------------------------- exported parse_addr
call_parse_addr ==
  /\ pc = "idle"
  /\ \E addrs \in Batches : \E i0 \in Indeterminate(Len(addrs)) :
         /\ Enter("parse_addr", addrs, <<>>, 0, <<>>,
                  CharacterVector(NumFields, CharacterVector(Len(addrs), <<>>)),
                  i0, "loop")
         /\ UNCHANGED result

\* parse_address((char*) addresses[i], options): no test for NA_STRING
parse_addr_parse ==
  /\ pc = "loop"
  /\ op = "parse_addr"
  /\ i < Len(addresses)
  /\ \E response \in ParseResponses :
       /\ parsed' = response
       /\ calls' = Append(calls, i)
       /\ outstanding' = outstanding + 1
  /\ visited' = Append(visited, i)
  /\ n' = 0
  /\ pc' = "components"
  /\ UNCHANGED << op, addresses, new_value, element, i, output, cols,
                  expansions, checks, result >>

\* one pass of the component loop, the interrupt check inside it
parse_addr_component ==
  /\ pc = "components"
  /\ n < Len(parsed)
  /\ checks' = Checked(i)
  /\ \E interrupt \in Interrupts(i) :
       IF interrupt
       THEN /\ Abort("interrupted")
            /\ UNCHANGED << n, cols >>
       ELSE /\ cols' = [k \in 1..NumFields |->
                          [cols[k] EXCEPT ![i + 1] =
                             parse_component(
                               [j \in 1..NumFields |-> cols[j][i + 1]],
                               parsed[n + 1][1], parsed[n + 1][2])[k]]]
            /\ n' = n + 1
            /\ UNCHANGED << pc, result >>
  /\ UNCHANGED << op, addresses, new_value, element, i, output, expansions,
                  parsed, outstanding, calls, visited >>

\* address_parser_response_destroy(parsed); i++
parse_addr_destroy ==
  /\ pc = "components"
  /\ n >= Len(parsed)
  /\ outstanding' = outstanding - 1
  /\ i' = i + 1
  /\ pc' = "loop"
  /\ UNCHANGED << op, addresses, new_value, element, n, output, cols,
                  expansions, parsed, calls, checks, visited, result >>

return_parse_addr == Return("parse_addr", "loop")

\* ------------------------------------------- poster_internal::get_elements
call_get_elements ==
  /\ pc = "idle"
  /\ \E addrs \in Batches, el \in Elements :
       \E i0 \in Indeterminate(Len(addrs)) :
         /\ Enter("get_elements", addrs, <<>>, el,
                  CharacterVector(Len(addrs), <<>>), <<>>, i0, "loop")
         /\ UNCHANGED result

get_elements ==
  /\ pc = "loop"
  /\ op = "get_elements"
  /\ i < Len(addresses)
  /\ checks' = Checked(i)
  /\ visited' = Append(visited, i)
  /\ \E interrupt \in Interrupts(i) :
       IF interrupt
       THEN /\ Abort("interrupted")
            /\ UNCHANGED << i, output, parsed, outstanding, calls >>
       ELSE /\ IF addresses[i + 1] = NA_STRING
               THEN /\ output' = [output EXCEPT ![i + 1] = NA_STRING]
                    /\ UNCHANGED << parsed, outstanding, calls >>
               ELSE \E response \in ParseResponses :
                      /\ parsed' = response
                      /\ calls' = Append(calls, i)
                      /\ output' = [output EXCEPT
                                      ![i + 1] = parse_single(response)[element + 1]]
                      /\ outstanding' = (outstanding + 1) - 1
            /\ i' = i + 1
            /\ UNCHANGED << pc, result >>
  /\ UNCHANGED << op, addresses, new_value, element, n, cols, expansions >>

return_get_elements == Return("get_elements", "loop")

\* ------------------------------------------- poster_internal::set_elements
\* the dispatch without the early `return addresses`
set_elements_branch_no_shortcut(addrs, nv) ==
  IF Len(nv) = 1 THEN "broadcast"
  ELSE IF Len(nv) = Len(addrs) THEN "positionwise" ELSE "stop"

\* the dispatch with `>=` for `==` in the second test
set_elements_branch_ge(addrs, nv) ==
  IF Len(nv) = 1
  THEN IF nv[1] = NA_STRING THEN "unchanged" ELSE "broadcast"
  ELSE IF Len(nv) >= Len(addrs) THEN "positionwise" ELSE "stop"

\* the dispatch on new_value.size() before either loop
set_elements_branch(addrs, nv) ==
  IF Len(nv) = 1
  THEN IF nv[1] = NA_STRING THEN "unchanged" ELSE "broadcast"
  ELSE IF Len(nv) = Len(addrs) THEN "positionwise" ELSE "stop"

call_set_elements ==
  /\ pc = "idle"
  /\ \E addrs \in Batches, nv \in NewValues, el \in Elements :
       \E i0 \in Indeterminate(Len(addrs)) :
         LET branch == set_elements_branch(addrs, nv)
             blank == CharacterVector(Len(addrs), <<>>)
         IN CASE branch = "unchanged" ->
                   \* return addresses;  (i is never read on this path)
                   /\ Enter("set_elements", addrs, nv, el, addrs, <<>>, 0, "done")
                   /\ i0 = 0
                   /\ result' = "returned"
              [] branch = "broadcast" ->
                   /\ Enter("set_elements", addrs, nv, el, blank, <<>>, i0, "loop")
                   /\ UNCHANGED result
              [] branch = "positionwise" ->
                   /\ Enter("set_elements", addrs, nv, el, blank, <<>>, i0, "loop2")
                   /\ UNCHANGED result
              [] OTHER ->
                   \* Rcpp::stop(...)  (i is never read on this path)
                   /\ Enter("set_elements", addrs, nv, el, blank, <<>>, 0, "done")
                   /\ i0 = 0
                   /\ result' = "stop"

\* the else-branch common to both loops: parse, then replace the first
\* occurrence of holding[element] in a copy of the address
set_one(replacement) ==
  \E response \in ParseResponses :
    LET holding == parse_single(response)
        addr_cp == addresses[i + 1]
        field == holding[element + 1]
        pos == find(addr_cp, field)
    IN /\ parsed' = response
       /\ calls' = Append(calls, i)
       /\ outstanding' = (outstanding + 1) - 1
       /\ IF field = NA_STRING
          THEN /\ output' = [output EXCEPT ![i + 1] = addresses[i + 1]]
               /\ i' = i + 1
               /\ UNCHANGED << pc, result >>
          ELSE IF replace_throws(addr_cp, pos)
               THEN /\ Abort("out_of_range")
                    /\ UNCHANGED << i, output >>
               ELSE /\ output' = [output EXCEPT
                                    ![i + 1] = replace(addr_cp, pos, Len(field),
                                                       replacement)]
                    /\ i' = i + 1
                    /\ UNCHANGED << pc, result >>

\* first loop: new_value.size() == 1
set_elements_broadcast ==
  /\ pc = "loop"
  /\ op = "set_elements"
  /\ i < Len(addresses)
  /\ checks' = Checked(i)
  /\ visited' = Append(visited, i)
  /\ \E interrupt \in Interrupts(i) :
       IF interrupt
       THEN /\ Abort("interrupted")
            /\ UNCHANGED << i, output, parsed, outstanding, calls >>
       ELSE IF addresses[i + 1] = NA_STRING
            THEN /\ output' = [output EXCEPT ![i + 1] = NA_STRING]
                 /\ i' = i + 1
                 /\ UNCHANGED << pc, result, parsed, outstanding, calls >>
            ELSE set_one(new_value[1])
  /\ UNCHANGED << op, addresses, new_value, element, n, cols, expansions >>

\* second loop: new_value.size() == input_size
set_elements_positionwise ==
  /\ pc = "loop2"
  /\ op = "set_elements"
  /\ i < Len(addresses)
  /\ checks' = Checked(i)
  /\ visited' = Append(visited, i)
  /\ \E interrupt \in Interrupts(i) :
       IF interrupt
       THEN /\ Abort("interrupted")
            /\ UNCHANGED << i, output, parsed, outstanding, calls >>
       ELSE IF addresses[i + 1] = NA_STRING
            THEN /\ output' = [output EXCEPT ![i + 1] = NA_STRING]
                 /\ i' = i + 1
                 /\ UNCHANGED << pc, result, parsed, outstanding, calls >>
            ELSE IF new_value[i + 1] = NA_STRING
                 THEN /\ output' = [output EXCEPT ![i + 1] = addresses[i + 1]]
                      /\ i' = i + 1
                      /\ UNCHANGED << pc, result, parsed, outstanding, calls >>
                 ELSE set_one(new_value[i + 1])
  /\ UNCHANGED << op, addresses, new_value, element, n, cols, expansions >>

return_set_elements_broadcast == Return("set_elements", "loop")

return_set_elements_positionwise == Return("set_elements", "loop2")

Next ==
  \/ call_address_normalise
  \/ address_normalise
  \/ return_address_normalise
  \/ call_normalise_addr
  \/ normalise_addr
  \/ return_normalise_addr
  \/ call_poster_internal_parse_addr
  \/ poster_internal_parse_addr
  \/ return_poster_internal_parse_addr
  \/ call_parse_addr
  \/ parse_addr_parse
  \/ parse_addr_component
  \/ parse_addr_destroy
  \/ return_parse_addr
  \/ call_get_elements
  \/ get_elements
  \/ return_get_elements
  \/ call_set_elements
  \/ set_elements_broadcast
  \/ set_elements_positionwise
  \/ return_set_elements_broadcast
  \/ return_set_elements_positionwise

Spec == Init /\ [][Next]_vars

\* ================================================================ claims
VectorOps == { "address_normalise", "normalise_addr", "get_elements", "set_elements" }
ParseOps == { "poster_internal_parse_addr", "parse_addr" }
NormaliseOps == { "address_normalise", "normalise_addr" }

\* the element index of the most recent engine call
LastCalled == calls[Len(calls)]

\* the value the contract assigns to field k for an engine response: the
\* component of the last pair labelled FieldNames[k], missing when there is
\* none or when it is empty
Expected(response, k) ==
  LET hits == { m \in 1..Len(response) : response[m][1] = FieldNames[k] }
  IN IF hits = {} THEN NA_STRING
     ELSE LET last == CHOOSE m \in hits : \A q \in hits : q <= m
          IN IF response[last][2] = <<>> THEN NA_STRING ELSE response[last][2]

\* t occurs in s at 0-based position p
OccursAt(s, t, p) == p + Len(t) <= Len(s) /\ SubSeq(s, p + 1, p + Len(t)) = t
Occurs(s, t) == \E p \in 0..Len(s) : OccursAt(s, t, p)

\* C1: every batch operation that returns normally returns exactly as many
\* entries as the input batch has; parse returns ten columns of that length.
C1_LengthPreserved ==
  result = "returned" =>
    IF op \in ParseOps
    THEN /\ Len(cols) = NumFields
         /\ \A k \in 1..NumFields : Len(cols[k]) = Len(addresses)
    ELSE Len(output) = Len(addresses)

C1_Witness ==
  /\ result = "returned"
  /\ op = "get_elements"
  /\ Len(addresses) = MaxLen
  /\ addresses[1] = NA_STRING
  /\ Len(calls) >= 1
  /\ Len(output) = MaxLen

\* C2: a missing input element yields a missing value in every output field
\* at its position, and the engine is never called for it.
C2_MissingPropagation ==
  \A idx \in 1..Len(addresses) :
    addresses[idx] = NA_STRING =>
      /\ \A c \in 1..Len(calls) : calls[c] # idx - 1
      /\ result = "returned" =>
           IF op \in ParseOps
           THEN \A k \in 1..NumFields : cols[k][idx] = NA_STRING
           ELSE output[idx] = NA_STRING

\* C3: once a non-missing address has been parsed, slot k of its record (the
\* projected slot for get_elements, column k for parse) is the component of
\* the last pair labelled with field k, and missing when there is no such
\* pair or its component is empty; other labels have no effect.
C3_FixedSlotMapping ==
  (/\ calls # <<>>
   /\ pc \in { "loop", "done" }
   /\ result # "interrupted"
   /\ addresses[LastCalled + 1] # NA_STRING) =>
     /\ op \in ParseOps =>
          \A k \in 1..NumFields :
            cols[k][LastCalled + 1] = Expected(parsed, k)
     /\ op = "get_elements" =>
          output[LastCalled + 1] = Expected(parsed, element + 1)

\* C4: a non-missing element of a normalise batch becomes the first
\* candidate of the engine's expansion list, or itself when the list is
\* empty.
C4_NormaliseFirstCandidate ==
  (op \in NormaliseOps /\ calls # <<>>) =>
    output[LastCalled + 1] =
      IF Len(expansions) = 0 THEN addresses[LastCalled + 1] ELSE expansions[1]

C4_Witness ==
  /\ op \in NormaliseOps
  /\ result = "returned"
  /\ Len(addresses) = MaxLen
  /\ output[1] = addresses[1]
  /\ addresses[1] # NA_STRING
  /\ Len(expansions) >= 2
  /\ expansions[1] # expansions[Len(expansions)]
  /\ output[MaxLen] = expansions[1]

\* C5: set_elements with a single missing replacement returns the batch as
\* it came, without an engine call, for every batch size.
C5_SetMissingSingleIsIdentity ==
  (op = "set_elements" /\ Len(new_value) = 1 /\ new_value[1] = NA_STRING) =>
    /\ pc = "done"
    /\ result = "returned"
    /\ output = addresses
    /\ calls = <<>>

C5_Witness ==
  /\ op = "set_elements"
  /\ new_value = << NA_STRING >>
  /\ Len(addresses) = MaxLen
  /\ addresses[1] = NA_STRING
  /\ addresses[MaxLen] # NA_STRING
  /\ result = "returned"
  /\ output = addresses

\* C6: set_elements raises the length error exactly when the replacement
\* length is neither 1 nor the address count, and then before any
\* interrupt check, engine call or write to the output.
C6_LengthMismatchError ==
  op = "set_elements" =>
    /\ (result = "stop") <=>
         (Len(new_value) # 1 /\ Len(new_value) # Len(addresses))
    /\ result = "stop" =>
         /\ pc = "done"
         /\ calls = <<>>
         /\ checks = <<>>
         /\ visited = <<>>
         /\ \A idx \in 1..Len(output) : output[idx] = <<>>

C6_Witness ==
  /\ op = "set_elements"
  /\ result = "stop"
  /\ Len(addresses) = MaxLen
  /\ Len(new_value) = MaxLen + 1
  /\ addresses[1] # NA_STRING
  /\ new_value[1] # NA_STRING

\* the replacement value that applies to element idx (1-based)
Applicable(idx) == IF Len(new_value) = 1 THEN new_value[1] ELSE new_value[idx]

\* C7: set_elements replaces only the first occurrence of the parsed field
\* in the address and keeps the text before and after it; an element whose
\* position-wise replacement is missing, or whose parsed field is absent,
\* comes back as the original address.
C7_SetReplacesFirstOccurrence ==
  op = "set_elements" =>
    /\ (/\ calls # <<>>
        /\ addresses[LastCalled + 1] # NA_STRING
        /\ Applicable(LastCalled + 1) # NA_STRING) =>
         LET address == addresses[LastCalled + 1]
             field == Expected(parsed, element + 1)
         IN IF field = NA_STRING
            THEN output[LastCalled + 1] = address
            ELSE Occurs(address, field) =>
                   \E p \in 0..Len(address) :
                     /\ OccursAt(address, field, p)
                     /\ \A q \in 0..(p - 1) : ~OccursAt(address, field, q)
                     /\ output[LastCalled + 1] =
                          SubSeq(address, 1, p)
                            \o Applicable(LastCalled + 1)
                            \o SubSeq(address, p + Len(field) + 1, Len(address))
    /\ (result = "returned" /\ Len(new_value) # 1) =>
         \A idx \in 1..Len(addresses) :
           (addresses[idx] # NA_STRING /\ new_value[idx] = NA_STRING) =>
             output[idx] = addresses[idx]

\* C8: when the parsed field is present but does not occur in the address,
\* set_elements leaves that element as it was, raises nothing and goes on.
C8_SetNotFoundIsNoOp ==
  (op = "set_elements" /\ calls # <<>>) =>
    LET address == addresses[LastCalled + 1]
        field == Expected(parsed, element + 1)
    IN (field # NA_STRING /\ ~Occurs(address, field)) =>
         /\ result \in { "none", "returned" }
         /\ output[LastCalled + 1] = address

IsCheckpoint(idx) == idx % CheckEvery = 0

\* C9: a batch operation visits the indices 0, 1, 2, ... in order, runs the
\* interrupt check exactly once at each visited index that is a multiple of
\* 10000 and nowhere else, visits every element before it returns, and an
\* interrupt ends it without a return.
C9_CheckpointDiscipline ==
  (op # "none" /\ pc \in { "loop", "loop2", "done" }) =>
    /\ visited = [k \in 1..Len(visited) |-> k - 1]
    /\ checks = SelectSeq(visited, IsCheckpoint)
    /\ (result = "returned" /\ visited # <<>>) => Len(visited) = Len(addresses)
    /\ (result = "returned" /\ visited = <<>>) =>
         (Len(addresses) = 0 \/ (op = "set_elements" /\ new_value = << NA_STRING >>))
    /\ result = "interrupted" => pc = "done"

\* C10: at most one engine buffer is outstanding at any time, none between
\* two elements, and none once the operation has ended, however it ended.
C10_BuffersReleased ==
  /\ outstanding \in { 0, 1 }
  /\ pc \in { "loop", "loop2", "done" } => outstanding = 0
====
